---- MODULE Spec2Model ----
(***************************************************************************)
(* Slack status updater (src/unnamed/part_001, the multi-workspace version *)
(* of src/src/index.ts, configured by src/config.js).                      *)
(*                                                                         *)
(* The process loads its workspaces, runs initialStatusCheck once, and     *)
(* registers cron callbacks.  Every callback reads the clock, evaluates    *)
(* the time rules and calls updateSlackStatus, which walks the workspace   *)
(* list and awaits two remote calls per workspace.  One action of the      *)
(* model is one synchronous run of JavaScript: from a callback's start, or *)
(* from the settlement of an awaited call, up to the next await.           *)
(*                                                                         *)
(* The clock has minute resolution and is sampled at ClockTimes.  The      *)
(* several `new Date()` reads of one synchronous run are one reading.      *)
(* The field `kind` of a decision names the branch of the code that built  *)
(* it; it is bookkeeping of the model, as are lastEval and lastDone.       *)
(***************************************************************************)
EXTENDS Integers, Sequences, FiniteSets, TLC

VARIABLES
    config,        \* the imported configuration object (src/config.js)
    debugEnv,      \* process.env.DEBUG
    tokens,        \* set of workspace indices whose tokenEnvKey is set
    pc,            \* "boot", "check", "running" or "exited"
    slackClients,  \* sequence of workspace indices with a client
    now,           \* wall clock: [day, min]
    fired,         \* cron callbacks already run in the current minute
    tasks,         \* updateSlackStatus calls suspended at an await
    slack,         \* remote state of each workspace: profile and presence
    lastEval,      \* the most recent evaluation and the pushes it made
    lastDone,      \* the most recently completed updateSlackStatus call
    failures,      \* number of remote calls that have rejected
    lateTicks      \* number of minutes that ended with a call in flight

vars == <<config, debugEnv, tokens, pc, slackClients, now, fired, tasks,
          slack, lastEval, lastDone, failures, lateTicks>>

----------------------------------------------------------------------------
(* Bounds of the model *)

NumDays == 4

MaxTasks == 2

MaxFailures == 2

MaxLateTicks == 0

\* the same bound under the configurations of LateConfigs
MaxLateTicksLate == 1

\* minutes of the day at which the clock is sampled
ClockTimes == {0, 480, 540, 630, 645, 720, 780, 960, 1020}

----------------------------------------------------------------------------
(* Calendar: day 0 is Wednesday 2025-12-24 *)

DayNames == <<"Sunday", "Monday", "Tuesday", "Wednesday", "Thursday",
              "Friday", "Saturday">>

\* Date.prototype.getDay
GetDay(d) == (3 + d) % 7

\* format(date, 'EEEE')
FormatEEEE(d) == DayNames[GetDay(d) + 1]

\* format(date, 'yyyy-MM-dd'): the digits of the string, dashes left out
FormatDate(d) ==
    LET dom == 24 + d
        y == IF dom <= 31 THEN 2025 ELSE 2026
        m == IF dom <= 31 THEN 12 ELSE 1
        dd == IF dom <= 31 THEN dom ELSE dom - 31
    IN <<y \div 1000, (y \div 100) % 10, (y \div 10) % 10, y % 10,
         m \div 10, m % 10, dd \div 10, dd % 10>>

\* JavaScript string comparison a <= b on strings of equal length
RECURSIVE StrLeq(_, _)
StrLeq(a, b) ==
    IF a = <<>> \/ b = <<>> THEN a = <<>>
    ELSE IF Head(a) # Head(b) THEN Head(a) < Head(b)
    ELSE StrLeq(Tail(a), Tail(b))

\* date-fns isWeekend: Saturday or Sunday
IsWeekend(d) == GetDay(d) \in {0, 6}

\* Math.floor(Date.now() / 1000)
EpochSeconds(t) == 1766534400 + (t.day * 1440 + t.min) * 60

\* 'HH:MM'.split(':').map(Number), then hour * 60 + minute
Minutes(hm) == hm.h * 60 + hm.m

HM(h, m) == [h |-> h, m |-> m]

NoTime == HM(-1, 0)

----------------------------------------------------------------------------
(* Configurations (src/config.js) *)

Date1224 == <<2, 0, 2, 5, 1, 2, 2, 4>>

Date1225 == <<2, 0, 2, 5, 1, 2, 2, 5>>

Date1226 == <<2, 0, 2, 5, 1, 2, 2, 6>>

Date1227 == <<2, 0, 2, 5, 1, 2, 2, 7>>

OOORule(day, time, duration, hs, he, message) ==
    [day |-> day, time |-> time, duration |-> duration,
     hour |-> [start |-> hs, end |-> he], message |-> message]

OutOfOfficeChoices ==
    { <<>>,
      << OOORule("Friday", NoTime, 0, NoTime, NoTime, "Half day") >>,
      << OOORule("", HM(9, 0), 60, NoTime, NoTime, "Out of Office") >>,
      << OOORule("", NoTime, 0, HM(15, 0), HM(17, 0), "") >> }

HolidayChoices ==
    { <<>>,
      << [day |-> Date1225, message |-> "Christmas Day"] >>,
      << [day |-> Date1224, message |-> ""],
         [day |-> Date1225, message |-> "Christmas Day"] >> }

StatusMessages ==
    [k \in {"active", "away", "lunch", "shortBreak", "holiday", "vacation",
            "weekend"} |->
        CASE k = "active" -> "Active"
          [] k = "away" -> "Away"
          [] k = "lunch" -> "Lunch Break"
          [] k = "shortBreak" -> "Short Break"
          [] k = "holiday" -> "On Holiday"
          [] k = "vacation" -> "On Vacation"
          [] k = "weekend" -> "Weekend Mode"]

NoStatusMessages == [k \in {} |-> ""]

StatusMessagesChoices == {StatusMessages, NoStatusMessages}

Emojis ==
    [k \in {"active", "away", "lunch", "shortBreak"} |->
        CASE k = "active" -> <<":computer:">>
          [] k = "away" -> <<":x:">>
          [] k = "lunch" -> <<":sandwich:", ":pizza:">>
          [] k = "shortBreak" -> <<":coffee:">>]

Workspaces == <<"Test Workspace", "Second Workspace">>

Configs ==
    { [workspaces |-> Workspaces,
       workDays |-> <<"Monday", "Tuesday", "Wednesday", "Thursday", "Friday">>,
       outOfOffice |-> o,
       workHours |-> [start |-> HM(8, 0), end |-> HM(16, 0)],
       lunchBreak |-> [start |-> HM(12, 0), end |-> HM(13, 0)],
       shortBreaks |-> << [time |-> HM(10, 30), duration |-> 15] >>,
       holidays |-> h,
       vacationPeriods |-> << [start |-> Date1224, end |-> Date1224] >>,
       statusMessages |-> s,
       emojis |-> Emojis] :
      o \in OutOfOfficeChoices, h \in HolidayChoices,
      s \in StatusMessagesChoices }

\* configurations that change what config.js documents as configurable: a
\* work week that is not Monday to Friday (given out of order), a vacation
\* period of several days, and a second short break whose end falls in a
\* later hour than its start
CustomWorkDaysChoices ==
    { [workDays |-> <<"Saturday", "Monday", "Tuesday", "Thursday", "Friday">>,
       vacationPeriods |-> << [start |-> Date1225, end |-> Date1226] >>],
      [workDays |-> <<"Sunday", "Monday", "Tuesday", "Wednesday", "Thursday">>,
       vacationPeriods |-> << [start |-> Date1225, end |-> Date1227] >>] }

CustomConfigs ==
    { [workspaces |-> Workspaces,
       workDays |-> c.workDays,
       outOfOffice |-> <<>>,
       workHours |-> [start |-> HM(8, 0), end |-> HM(16, 0)],
       lunchBreak |-> [start |-> HM(12, 0), end |-> HM(13, 0)],
       shortBreaks |-> << [time |-> HM(10, 30), duration |-> 15],
                          [time |-> HM(9, 0), duration |-> 90] >>,
       holidays |-> <<>>,
       vacationPeriods |-> c.vacationPeriods,
       statusMessages |-> StatusMessages,
       emojis |-> Emojis] :
      c \in CustomWorkDaysChoices }

\* emoji lists other than the four well-formed ones of Emojis: an empty
\* list for a category, and a category with more than one emoji that is
\* pushed more than once a day
EmojisChoices ==
    { [Emojis EXCEPT !["away"] = <<>>],
      [Emojis EXCEPT !["active"] = <<":computer:", ":technologist:">>] }

EmojiConfigs ==
    { [workspaces |-> Workspaces,
       workDays |-> <<"Monday", "Tuesday", "Wednesday", "Thursday", "Friday">>,
       outOfOffice |-> <<>>,
       workHours |-> [start |-> HM(8, 0), end |-> HM(16, 0)],
       lunchBreak |-> [start |-> HM(12, 0), end |-> HM(13, 0)],
       shortBreaks |-> << [time |-> HM(10, 30), duration |-> 15] >>,
       holidays |-> <<>>,
       vacationPeriods |-> << [start |-> Date1224, end |-> Date1224] >>,
       statusMessages |-> StatusMessages,
       emojis |-> e] :
      e \in EmojisChoices }

\* a configuration without holidays, vacation and out-of-office rules, under
\* which a remote call may stay unanswered while the clock moves on
LateConfigs ==
    { [workspaces |-> Workspaces,
       workDays |-> <<"Monday", "Tuesday", "Wednesday", "Thursday", "Friday">>,
       outOfOffice |-> <<>>,
       workHours |-> [start |-> HM(8, 0), end |-> HM(16, 0)],
       lunchBreak |-> [start |-> HM(12, 0), end |-> HM(13, 0)],
       shortBreaks |-> << [time |-> HM(10, 30), duration |-> 15] >>,
       holidays |-> <<>>,
       vacationPeriods |-> <<>>,
       statusMessages |-> StatusMessages,
       emojis |-> Emojis] }

----------------------------------------------------------------------------
(* Time rules *)

\* Array.prototype.find: the first of the indices that satisfy the
\* predicate, 0 if there is none
Find(matching) ==
    IF matching = {} THEN 0
    ELSE CHOOSE i \in matching : \A j \in matching : i <= j

\* getHoliday: index into config.holidays of the holiday of the date, 0 for null
GetHoliday(t) ==
    LET currentDate == FormatDate(t.day)
    IN Find({ i \in 1..Len(config.holidays) :
                 config.holidays[i].day = currentDate })

IsHoliday(t) == GetHoliday(t) # 0

\* isVacation with the end date of the period left out
IsVacationExclusiveEnd(t) ==
    LET currentDate == FormatDate(t.day)
    IN \E i \in 1..Len(config.vacationPeriods) :
          /\ StrLeq(config.vacationPeriods[i].start, currentDate)
          /\ StrLeq(currentDate, config.vacationPeriods[i].end)
          /\ currentDate # config.vacationPeriods[i].end

IsVacation(t) ==
    LET currentDate == FormatDate(t.day)
    IN \E i \in 1..Len(config.vacationPeriods) :
          /\ StrLeq(config.vacationPeriods[i].start, currentDate)
          /\ StrLeq(currentDate, config.vacationPeriods[i].end)

IsDuringWorkHours(t) ==
    LET currentTime == t.min
        startTime == Minutes(config.workHours.start)
        endTime == Minutes(config.workHours.end)
    IN currentTime >= startTime /\ currentTime < endTime

\* isDuringLunch with the end minute of the break counted in
IsDuringLunchInclusiveEnd(t) ==
    LET currentTime == t.min
        startTime == Minutes(config.lunchBreak.start)
        endTime == Minutes(config.lunchBreak.end)
    IN currentTime >= startTime /\ currentTime <= endTime

IsDuringLunch(t) ==
    LET currentTime == t.min
        startTime == Minutes(config.lunchBreak.start)
        endTime == Minutes(config.lunchBreak.end)
    IN currentTime >= startTime /\ currentTime < endTime

\* the iteration with the last minute of a time rule one too late
OOORuleMatchesInclusiveEnd(oooConfig, day, currentTime) ==
    \/ oooConfig.day # "" /\ oooConfig.day = day
    \/ /\ oooConfig.time # NoTime /\ oooConfig.duration # 0
       /\ LET startTime == Minutes(oooConfig.time)
              endTime == startTime + oooConfig.duration
          IN currentTime >= startTime /\ currentTime <= endTime
    \/ /\ oooConfig.hour.start # NoTime /\ oooConfig.hour.end # NoTime
       /\ LET startTime == Minutes(oooConfig.hour.start)
              endTime == Minutes(oooConfig.hour.end)
          IN currentTime >= startTime /\ currentTime < endTime

\* one iteration of the loop of isOutOfOffice: does this rule return true
OOORuleMatches(oooConfig, day, currentTime) ==
    \/ oooConfig.day # "" /\ oooConfig.day = day
    \/ /\ oooConfig.time # NoTime /\ oooConfig.duration # 0
       /\ LET startTime == Minutes(oooConfig.time)
              endTime == startTime + oooConfig.duration
          IN currentTime >= startTime /\ currentTime < endTime
    \/ /\ oooConfig.hour.start # NoTime /\ oooConfig.hour.end # NoTime
       /\ LET startTime == Minutes(oooConfig.hour.start)
              endTime == Minutes(oooConfig.hour.end)
          IN currentTime >= startTime /\ currentTime < endTime

\* isOutOfOffice({date, time, day}); optTime = NoTime and optDay = "" when
\* the option is not given
IsOutOfOfficeAt(t, optTime, optDay) ==
    LET day == IF optDay # "" THEN optDay ELSE FormatEEEE(t.day)
        currentTime == IF optTime # NoTime THEN Minutes(optTime) ELSE t.min
    IN \E i \in 1..Len(config.outOfOffice) :
          OOORuleMatches(config.outOfOffice[i], day, currentTime)

\* isOutOfOffice() as every caller calls it
IsOutOfOffice(t) == IsOutOfOfficeAt(t, NoTime, "")

\* getStatusMessage without the fall back to the default message
GetStatusMessageNoDefault(statusType, defaultMessage) ==
    IF statusType \in DOMAIN config.statusMessages
    THEN config.statusMessages[statusType]
    ELSE ""

GetStatusMessage(statusType, defaultMessage) ==
    IF statusType \in DOMAIN config.statusMessages
       /\ config.statusMessages[statusType] # ""
    THEN config.statusMessages[statusType]
    ELSE defaultMessage

\* the message chosen for an out-of-office push (lines 291-297 and 445-449)
OOOMessage(t) ==
    LET currentDay == FormatEEEE(t.day)
        i == Find({ j \in 1..Len(config.outOfOffice) :
                       /\ config.outOfOffice[j].day # ""
                       /\ config.outOfOffice[j].day = currentDay })
    IN IF i # 0 /\ config.outOfOffice[i].message # ""
       THEN config.outOfOffice[i].message
       ELSE GetStatusMessage("away", "Away")

\* holiday.message || 'On Holiday'
HolidayMessage(t) ==
    LET holiday == config.holidays[GetHoliday(t)]
    IN GetStatusMessage("holiday",
          IF holiday.message # "" THEN holiday.message ELSE "On Holiday")

----------------------------------------------------------------------------
(* The calls of updateSlackStatus each handler makes: a sequence of         *)
(* requests [kind, text, category, expMin, away], the emoji still to be     *)
(* drawn from the category by getDailyEmoji.                                *)

Request(kind, text, category, expMin, away) ==
    [kind |-> kind, text |-> text, category |-> category, expMin |-> expMin,
     away |-> away]

\* initialStatusCheck with the holiday test moved before the out-of-office test
InitialStatusCheckHolidayFirst(t) ==
    IF GetHoliday(t) # 0
    THEN << Request("holiday", HolidayMessage(t), "away", 0, TRUE) >>
    ELSE IF IsOutOfOffice(t)
    THEN << Request("outOfOffice", OOOMessage(t), "away", 0, TRUE) >>
    ELSE IF IsVacation(t)
    THEN << Request("vacation", GetStatusMessage("vacation", "On Vacation"),
                    "away", 0, TRUE) >>
    ELSE IF IsWeekend(t.day)
    THEN << Request("weekend", GetStatusMessage("weekend", "Weekend Mode"),
                    "away", 0, TRUE) >>
    ELSE IF IsDuringWorkHours(t)
    THEN IF IsDuringLunch(t)
         THEN << Request("lunch", GetStatusMessage("lunch", "Lunch Break"),
                         "lunch", 60, FALSE) >>
         ELSE << Request("active", GetStatusMessage("active", "Active"),
                         "active", 0, FALSE) >>
    ELSE << Request("away", GetStatusMessage("away", "Away"), "away", 0,
                    TRUE) >>

InitialStatusCheck(t) ==
    IF IsOutOfOffice(t)
    THEN << Request("outOfOffice", OOOMessage(t), "away", 0, TRUE) >>
    ELSE IF GetHoliday(t) # 0
    THEN << Request("holiday", HolidayMessage(t), "away", 0, TRUE) >>
    ELSE IF IsVacation(t)
    THEN << Request("vacation", GetStatusMessage("vacation", "On Vacation"),
                    "away", 0, TRUE) >>
    ELSE IF IsWeekend(t.day)
    THEN << Request("weekend", GetStatusMessage("weekend", "Weekend Mode"),
                    "away", 0, TRUE) >>
    ELSE IF IsDuringWorkHours(t)
    THEN IF IsDuringLunch(t)
         THEN << Request("lunch", GetStatusMessage("lunch", "Lunch Break"),
                         "lunch", 60, FALSE) >>
         ELSE << Request("active", GetStatusMessage("active", "Active"),
                         "active", 0, FALSE) >>
    ELSE << Request("away", GetStatusMessage("away", "Away"), "away", 0,
                    TRUE) >>

\* the work-start callback without its holiday test
WorkStartCallbackNoHoliday(t) ==
    IF ~IsVacation(t) /\ ~IsOutOfOffice(t)
    THEN << Request("active", GetStatusMessage("active", "Active"), "active",
                    0, FALSE) >>
    ELSE << Request("away", GetStatusMessage("away", "Away"), "away", 0,
                    TRUE) >>

WorkStartCallback(t) ==
    IF ~IsHoliday(t) /\ ~IsVacation(t) /\ ~IsOutOfOffice(t)
    THEN << Request("active", GetStatusMessage("active", "Active"), "active",
                    0, FALSE) >>
    ELSE << Request("away", GetStatusMessage("away", "Away"), "away", 0,
                    TRUE) >>

\* the work-end callback without its holiday test
WorkEndCallbackNoHoliday(t) ==
    IF ~IsVacation(t) /\ ~IsOutOfOffice(t)
    THEN << Request("away", GetStatusMessage("away", "Away"), "away", 0,
                    TRUE) >>
    ELSE << >>

WorkEndCallback(t) ==
    IF ~IsHoliday(t) /\ ~IsVacation(t) /\ ~IsOutOfOffice(t)
    THEN << Request("away", GetStatusMessage("away", "Away"), "away", 0,
                    TRUE) >>
    ELSE << >>

LunchStartCallback(t) ==
    IF ~IsHoliday(t) /\ ~IsVacation(t) /\ ~IsWeekend(t.day) /\ ~IsOutOfOffice(t)
    THEN << Request("lunch", GetStatusMessage("lunch", "Lunch Break"),
                    "lunch", 60, FALSE) >>
    ELSE << >>

LunchEndCallback(t) ==
    IF ~IsHoliday(t) /\ ~IsVacation(t) /\ ~IsWeekend(t.day) /\ ~IsOutOfOffice(t)
    THEN << Request("active", GetStatusMessage("active", "Active"), "active",
                    0, FALSE) >>
    ELSE << >>

\* the short-break callback pushing a status that never expires
ShortBreakCallbackNoExpiration(t, breakInfo) ==
    IF ~IsHoliday(t) /\ ~IsVacation(t) /\ ~IsWeekend(t.day) /\ ~IsOutOfOffice(t)
    THEN << Request("shortBreak", GetStatusMessage("shortBreak", "Short Break"),
                    "shortBreak", 0, FALSE) >>
    ELSE << >>

ShortBreakCallback(t, breakInfo) ==
    IF ~IsHoliday(t) /\ ~IsVacation(t) /\ ~IsWeekend(t.day) /\ ~IsOutOfOffice(t)
    THEN << Request("shortBreak", GetStatusMessage("shortBreak", "Short Break"),
                    "shortBreak", breakInfo.duration, FALSE) >>
    ELSE << >>

\* the short-break return callback without its out-of-office test
ShortBreakReturnCallbackNoOOO(t) ==
    IF ~IsHoliday(t) /\ ~IsVacation(t) /\ ~IsWeekend(t.day)
    THEN << Request("active", GetStatusMessage("active", "Active"), "active",
                    0, FALSE) >>
    ELSE << >>

ShortBreakReturnCallback(t) ==
    IF ~IsHoliday(t) /\ ~IsVacation(t) /\ ~IsWeekend(t.day) /\ ~IsOutOfOffice(t)
    THEN << Request("active", GetStatusMessage("active", "Active"), "active",
                    0, FALSE) >>
    ELSE << >>

NonWorkDayMidnightCallback(t) ==
    << Request("weekend", GetStatusMessage("weekend", "Weekend Mode"), "away",
               0, TRUE) >>

DailyMidnightCallback(t) ==
    IF IsWeekend(t.day)
    THEN << Request("weekend", GetStatusMessage("weekend", "Weekend Mode"),
                    "away", 0, TRUE) >>
    ELSE IF IsHoliday(t)
    THEN << Request("holiday", HolidayMessage(t), "away", 0, TRUE) >>
    ELSE IF IsVacation(t)
    THEN << Request("vacation", GetStatusMessage("vacation", "On Vacation"),
                    "away", 0, TRUE) >>
    ELSE IF IsOutOfOffice(t)
    THEN << Request("outOfOffice", OOOMessage(t), "away", 0, TRUE) >>
    ELSE << >>

----------------------------------------------------------------------------
(* Startup: slackClients (lines 10-28) *)

\* line 25: process.exit(1)
ExitCode == 1

\* lines 13-16: the workspaces console.warn names, in configuration order
MissingTokenWarnings ==
    LET NoToken(i) == i \notin tokens
    IN SelectSeq([i \in 1..Len(config.workspaces) |-> i], NoToken)

\* the workspaces from index i on, with or without token
ClientsFromUnfiltered(i) ==
    [k \in 1..(Len(config.workspaces) - i + 1) |-> k + i - 1]

\* config.workspaces.map(...).filter(client => client !== null), from index i
RECURSIVE ClientsFrom(_)
ClientsFrom(i) ==
    IF i > Len(config.workspaces) THEN <<>>
    ELSE IF i \in tokens THEN <<i>> \o ClientsFrom(i + 1)
    ELSE ClientsFrom(i + 1)

LoadedClients == ClientsFrom(1)

----------------------------------------------------------------------------
(* getDailyEmoji and updateSlackStatus (lines 50-104) *)

\* the value of an array element that does not exist
Undefined == "undefined"

\* the values Math.floor(Math.random() * length) can index; with an empty
\* list the index is 0 and the element read there is undefined
GetDailyEmoji(category) ==
    IF Len(config.emojis[category]) = 0 THEN {Undefined}
    ELSE { config.emojis[category][i] :
              i \in 1..Len(config.emojis[category]) }

\* String.prototype.toLowerCase on the values DEBUG takes
ToLowerCase(str) == IF str = "TRUE" THEN "true" ELSE str

\* the debug test without toLowerCase
DebugModeCaseSensitive == debugEnv = "true"

\* process.env.DEBUG?.toLowerCase() === 'true'; "" stands for an unset DEBUG
DebugMode == ToLowerCase(debugEnv) = "true"

Decision(req, emoji) ==
    [kind |-> req.kind, text |-> req.text, emoji |-> emoji,
     expMin |-> req.expMin, away |-> req.away]

\* the call with status_expiration counted in minutes after the epoch second
NewTaskExpirationInMinutes(dec, t) ==
    LET n == Len(slackClients) IN
    [dec |-> dec,
     profile |-> [status_text |-> dec.text,
                  status_emoji |-> dec.emoji,
                  status_expiration |->
                     IF dec.expMin > 0
                     THEN EpochSeconds(t) + dec.expMin
                     ELSE 0],
     debugMode |-> DebugMode,
     idx |-> 0,
     phase |-> "start",
     outcome |-> "pending",
     attempts |-> [k \in 1..n |-> 0],
     profileCalls |-> [k \in 1..n |-> 0],
     presenceCalls |-> [k \in 1..n |-> 0],
     logs |-> [k \in 1..n |-> <<>>],
     errors |-> [k \in 1..n |-> 0],
     failed |-> {}]

\* the call with the expiration computed whatever expirationMinutes is
NewTaskExpirationAlways(dec, t) ==
    LET n == Len(slackClients) IN
    [dec |-> dec,
     profile |-> [status_text |-> dec.text,
                  status_emoji |-> dec.emoji,
                  status_expiration |->
                     EpochSeconds(t) + dec.expMin * 60],
     debugMode |-> DebugMode,
     idx |-> 0,
     phase |-> "start",
     outcome |-> "pending",
     attempts |-> [k \in 1..n |-> 0],
     profileCalls |-> [k \in 1..n |-> 0],
     presenceCalls |-> [k \in 1..n |-> 0],
     logs |-> [k \in 1..n |-> <<>>],
     errors |-> [k \in 1..n |-> 0],
     failed |-> {}]

\* lines 65-77: the profile object and the debug flag of one call
NewTask(dec, t) ==
    LET n == Len(slackClients) IN
    [dec |-> dec,
     profile |-> [status_text |-> dec.text,
                  status_emoji |-> dec.emoji,
                  status_expiration |->
                     IF dec.expMin > 0
                     THEN EpochSeconds(t) + dec.expMin * 60
                     ELSE 0],
     debugMode |-> DebugMode,
     idx |-> 0,
     phase |-> "start",
     outcome |-> "pending",
     attempts |-> [k \in 1..n |-> 0],
     profileCalls |-> [k \in 1..n |-> 0],
     presenceCalls |-> [k \in 1..n |-> 0],
     logs |-> [k \in 1..n |-> <<>>],
     errors |-> [k \in 1..n |-> 0],
     failed |-> {}]

\* console.log of lines 94-96: the entry carries the debug mark
LogEntry(task) == IF task.debugMode THEN "DEBUG - NOT SENT" ELSE "sent"

\* the for loop of lines 79-100 entered at workspace k, run up to the next
\* await (the call of users.profile.set) or to the end of the function
RECURSIVE RunLoop(_, _)
RunLoop(task, k) ==
    IF k > Len(slackClients)
    THEN [task EXCEPT !.phase = "done", !.outcome = "resolved"]
    ELSE IF ~task.debugMode
    THEN [task EXCEPT !.idx = k, !.phase = "profile",
                      !.attempts[k] = @ + 1, !.profileCalls[k] = @ + 1]
    ELSE RunLoop([task EXCEPT !.idx = k, !.attempts[k] = @ + 1,
                              !.logs[k] = Append(@, LogEntry(task))], k + 1)

\* the catch placed around the loop: the error is logged and the loop ends
WorkspaceCatchAbort(task) ==
    RunLoop([task EXCEPT !.errors[task.idx] = @ + 1], Len(slackClients) + 1)

\* no catch at all: the rejection leaves updateSlackStatus
WorkspaceCatchRethrow(task) ==
    [task EXCEPT !.phase = "done", !.outcome = "rejected"]

\* a catch that logs nothing
WorkspaceCatchSilent(task) == RunLoop(task, task.idx + 1)

\* a catch that tries the same workspace again
WorkspaceCatchRetry(task) ==
    RunLoop([task EXCEPT !.errors[task.idx] = @ + 1], task.idx)

\* lines 97-99: the catch of the workspace's try block, then the next workspace
WorkspaceCatch(task) ==
    RunLoop([task EXCEPT !.errors[task.idx] = @ + 1], task.idx + 1)

\* the sequence without its i-th element
RemoveAt(seq, i) == SubSeq(seq, 1, i - 1) \o SubSeq(seq, i + 1, Len(seq))

\* the task list and the completion record after task i became task
Settle(i, task) ==
    IF task.phase = "done"
    THEN /\ tasks' = RemoveAt(tasks, i)
         /\ lastDone' = task
    ELSE /\ tasks' = [tasks EXCEPT ![i] = task]
         /\ UNCHANGED lastDone

\* users.profile.set whose payload takes its expiration from the clock
\* reading at which the call is answered
ProfileSetResolvesRecomputed(i) ==
    /\ tasks[i].phase = "profile"
    /\ LET task == tasks[i]
           ws == slackClients[task.idx]
       IN /\ slack' = [slack EXCEPT ![ws].profile =
                          [task.profile EXCEPT !.status_expiration =
                              IF task.dec.expMin > 0
                              THEN EpochSeconds(now) + task.dec.expMin * 60
                              ELSE 0]]
          /\ Settle(i, [task EXCEPT !.phase = "presence",
                                    !.presenceCalls[task.idx] = @ + 1])
    /\ UNCHANGED <<config, debugEnv, tokens, pc, slackClients, now, fired,
                   lastEval, failures, lateTicks>>

\* users.profile.set of task i resolves: line 88 calls users.setPresence
ProfileSetResolves(i) ==
    /\ tasks[i].phase = "profile"
    /\ LET task == tasks[i]
           ws == slackClients[task.idx]
       IN /\ slack' = [slack EXCEPT ![ws].profile = task.profile]
          /\ Settle(i, [task EXCEPT !.phase = "presence",
                                    !.presenceCalls[task.idx] = @ + 1])
    /\ UNCHANGED <<config, debugEnv, tokens, pc, slackClients, now, fired,
                   lastEval, failures, lateTicks>>

\* users.profile.set of task i rejects and users.setPresence is called all
\* the same
ProfileSetRejectsThenPresence(i) ==
    /\ tasks[i].phase = "profile"
    /\ failures < MaxFailures
    /\ failures' = failures + 1
    /\ LET task == tasks[i]
       IN Settle(i, [task EXCEPT !.failed = @ \cup {task.idx},
                                 !.errors[task.idx] = @ + 1,
                                 !.phase = "presence",
                                 !.presenceCalls[task.idx] = @ + 1])
    /\ UNCHANGED <<config, debugEnv, tokens, pc, slackClients, now, fired,
                   slack, lastEval, lateTicks>>

\* users.profile.set of task i rejects
ProfileSetRejects(i) ==
    /\ tasks[i].phase = "profile"
    /\ failures < MaxFailures
    /\ failures' = failures + 1
    /\ LET task == tasks[i]
       IN Settle(i, WorkspaceCatch([task EXCEPT !.failed = @ \cup {task.idx}]))
    /\ UNCHANGED <<config, debugEnv, tokens, pc, slackClients, now, fired,
                   slack, lastEval, lateTicks>>

\* users.setPresence always asked for auto
SetPresenceResolvesAlwaysAuto(i) ==
    /\ tasks[i].phase = "presence"
    /\ LET task == tasks[i]
           ws == slackClients[task.idx]
       IN /\ slack' = [slack EXCEPT ![ws].presence = "auto"]
          /\ Settle(i, RunLoop([task EXCEPT !.logs[task.idx] =
                                   Append(@, LogEntry(task))], task.idx + 1))
    /\ UNCHANGED <<config, debugEnv, tokens, pc, slackClients, now, fired,
                   lastEval, failures, lateTicks>>

\* users.setPresence of task i resolves: the log line, then the next workspace
SetPresenceResolves(i) ==
    /\ tasks[i].phase = "presence"
    /\ LET task == tasks[i]
           ws == slackClients[task.idx]
       IN /\ slack' = [slack EXCEPT ![ws].presence =
                          IF task.dec.away THEN "away" ELSE "auto"]
          /\ Settle(i, RunLoop([task EXCEPT !.logs[task.idx] =
                                   Append(@, LogEntry(task))], task.idx + 1))
    /\ UNCHANGED <<config, debugEnv, tokens, pc, slackClients, now, fired,
                   lastEval, failures, lateTicks>>

\* users.setPresence of task i rejects
SetPresenceRejects(i) ==
    /\ tasks[i].phase = "presence"
    /\ failures < MaxFailures
    /\ failures' = failures + 1
    /\ LET task == tasks[i]
       IN Settle(i, WorkspaceCatch([task EXCEPT !.failed = @ \cup {task.idx}]))
    /\ UNCHANGED <<config, debugEnv, tokens, pc, slackClients, now, fired,
                   slack, lastEval, lateTicks>>

\* a handler that made the calls reqs of updateSlackStatus at the clock
\* reading now: each call runs to its first await
Evaluate(op, brk, reqs) ==
    /\ Len(tasks) < MaxTasks
    /\ IF reqs = <<>>
       THEN /\ lastEval' = [op |-> op, brk |-> brk, at |-> now, pushes |-> <<>>]
            /\ UNCHANGED <<tasks, lastDone>>
       ELSE \E emoji \in GetDailyEmoji(reqs[1].category) :
               LET dec == Decision(reqs[1], emoji)
                   task == RunLoop(NewTask(dec, now), 1)
               IN /\ lastEval' = [op |-> op, brk |-> brk, at |-> now,
                                  pushes |-> <<dec>>]
                  /\ IF task.phase = "done"
                     THEN lastDone' = task /\ UNCHANGED tasks
                     ELSE tasks' = Append(tasks, task) /\ UNCHANGED lastDone
    /\ UNCHANGED <<slack, failures, lateTicks>>

----------------------------------------------------------------------------
(* The cron schedule (lines 366-452) *)

DayMap(day) ==
    CASE day = "Sunday" -> 0 [] day = "Monday" -> 1 [] day = "Tuesday" -> 2
      [] day = "Wednesday" -> 3 [] day = "Thursday" -> 4 [] day = "Friday" -> 5
      [] day = "Saturday" -> 6

\* Array.prototype.sort((a, b) => a - b)
RECURSIVE SortAsc(_)
SortAsc(seq) ==
    IF seq = <<>> THEN <<>>
    ELSE LET m == CHOOSE i \in 1..Len(seq) :
                     \A j \in 1..Len(seq) : seq[i] <= seq[j]
         IN <<seq[m]>> \o SortAsc(RemoveAt(seq, m))

GetWorkDaysCronExpression ==
    SortAsc([i \in 1..Len(config.workDays) |-> DayMap(config.workDays[i])])

\* the non-work days fixed to Sunday and Saturday
GetNonWorkDaysCronExpressionSatSun == <<0, 6>>

GetNonWorkDaysCronExpression ==
    LET allDays == <<0, 1, 2, 3, 4, 5, 6>>
        workDayNumbers == { DayMap(config.workDays[i]) :
                               i \in 1..Len(config.workDays) }
        NotWorkDay(day) == day \notin workDayNumbers
    IN SortAsc(SelectSeq(allDays, NotWorkDay))

AllDaysCron == <<0, 1, 2, 3, 4, 5, 6>>

\* node-cron: the expression `minute hour * * days` matches the minute t
CronMatches(minute, hour, days, t) ==
    /\ t.min = hour * 60 + minute
    /\ \E i \in 1..Len(days) : days[i] = GetDay(t.day)

\* the end of the break with the minutes wrapped and the hour left alone
ReturnFromBreakNoCarry(breakInfo) ==
    HM(breakInfo.time.h, (breakInfo.time.m + breakInfo.duration) % 60)

\* lines 414-417: addMinutes(new Date(`2000-01-01THH:MM`), duration)
ReturnFromBreak(breakInfo) ==
    LET total == Minutes(breakInfo.time) + breakInfo.duration
    IN HM((total \div 60) % 24, total % 60)

Breaks == 1..Len(config.shortBreaks)

\* the registered callbacks: [op, brk] with brk = 0 but for short breaks
Trigger(op, brk) == [op |-> op, brk |-> brk]

\* is the callback due in the minute t
Due(tr, t) ==
    CASE tr.op = "workStart" -> CronMatches(0, 9, GetWorkDaysCronExpression, t)
      [] tr.op = "workEnd" -> CronMatches(0, 17, GetWorkDaysCronExpression, t)
      [] tr.op = "lunchStart" -> CronMatches(0, 12, GetWorkDaysCronExpression, t)
      [] tr.op = "lunchEnd" -> CronMatches(0, 13, GetWorkDaysCronExpression, t)
      [] tr.op = "shortBreak" ->
            CronMatches(config.shortBreaks[tr.brk].time.m,
                        config.shortBreaks[tr.brk].time.h,
                        GetWorkDaysCronExpression, t)
      [] tr.op = "shortBreakReturn" ->
            CronMatches(ReturnFromBreak(config.shortBreaks[tr.brk]).m,
                        ReturnFromBreak(config.shortBreaks[tr.brk]).h,
                        GetWorkDaysCronExpression, t)
      [] tr.op = "nonWorkDayMidnight" ->
            CronMatches(0, 0, GetNonWorkDaysCronExpression, t)
      [] tr.op = "dailyMidnight" -> CronMatches(0, 0, AllDaysCron, t)

Triggers ==
    { Trigger(op, 0) : op \in {"workStart", "workEnd", "lunchStart",
                               "lunchEnd", "nonWorkDayMidnight",
                               "dailyMidnight"} }
    \cup { Trigger(op, b) : op \in {"shortBreak", "shortBreakReturn"},
                            b \in Breaks }

DueTriggers(t) == { tr \in Triggers : Due(tr, t) }

\* the scheduler runs the callback tr once in a minute it is due in
Fire(tr, reqs) ==
    /\ pc = "running"
    /\ tr \notin fired
    /\ Due(tr, now)
    /\ fired' = fired \cup {tr}
    /\ Evaluate(tr.op, tr.brk, reqs)
    /\ UNCHANGED <<config, debugEnv, tokens, pc, slackClients, now>>

WorkStartTrigger == Fire(Trigger("workStart", 0), WorkStartCallback(now))

WorkEndTrigger == Fire(Trigger("workEnd", 0), WorkEndCallback(now))

LunchStartTrigger == Fire(Trigger("lunchStart", 0), LunchStartCallback(now))

LunchEndTrigger == Fire(Trigger("lunchEnd", 0), LunchEndCallback(now))

ShortBreakTrigger(b) ==
    Fire(Trigger("shortBreak", b),
         ShortBreakCallback(now, config.shortBreaks[b]))

ShortBreakReturnTrigger(b) ==
    Fire(Trigger("shortBreakReturn", b), ShortBreakReturnCallback(now))

NonWorkDayMidnightTrigger ==
    Fire(Trigger("nonWorkDayMidnight", 0), NonWorkDayMidnightCallback(now))

DailyMidnightTrigger ==
    Fire(Trigger("dailyMidnight", 0), DailyMidnightCallback(now))

----------------------------------------------------------------------------
(* The process *)

\* lines 10-28: build slackClients, exit(1) when it is empty
LoadClients ==
    /\ pc = "boot"
    /\ slackClients' = LoadedClients
    /\ pc' = IF Len(LoadedClients) = 0 THEN "exited" ELSE "check"
    /\ UNCHANGED <<config, debugEnv, tokens, now, fired, tasks, slack,
                   lastEval, lastDone, failures, lateTicks>>

\* line 364 and the registrations after it: initialStatusCheck runs to its
\* first await, then the callbacks are scheduled; the callbacks due in the
\* minute of the start are past their firing instant
StartupCheck ==
    /\ pc = "check"
    /\ Evaluate("initialStatusCheck", 0, InitialStatusCheck(now))
    /\ pc' = "running"
    /\ fired' = DueTriggers(now)
    /\ UNCHANGED <<config, debugEnv, tokens, slackClients, now>>

NoEval == [op |-> "none", brk |-> 0, at |-> [day |-> 0, min |-> 0],
           pushes |-> <<>>]

NoTask == [phase |-> "none"]

\* the sampled instant after t
NextInstant(t) ==
    IF \E m \in ClockTimes : m > t.min
    THEN [day |-> t.day,
          min |-> CHOOSE m \in ClockTimes :
                     m > t.min /\ \A k \in ClockTimes : k > t.min => m <= k]
    ELSE [day |-> t.day + 1,
          min |-> CHOOSE m \in ClockTimes : \A k \in ClockTimes : m <= k]

\* how many minutes may end with a remote call still unanswered
LateTickLimit ==
    IF config \in LateConfigs THEN MaxLateTicksLate ELSE MaxLateTicks

\* the clock reaches the next sampled minute; every callback due in the
\* current minute has been run by the scheduler
Tick ==
    /\ pc = "running"
    /\ DueTriggers(now) \subseteq fired
    /\ NextInstant(now).day < NumDays
    /\ IF tasks = <<>>
       THEN UNCHANGED lateTicks
       ELSE lateTicks < LateTickLimit /\ lateTicks' = lateTicks + 1
    /\ now' = NextInstant(now)
    /\ fired' = {}
    /\ lastEval' = NoEval
    /\ lastDone' = NoTask
    /\ UNCHANGED <<config, debugEnv, tokens, pc, slackClients, tasks, slack,
                   failures>>

DebugEnvChoices == {"", "TRUE"}

TokenChoices == {{1, 2}, {2}, {}}

\* the state in which the process starts under one of the configurations
Boot(configs) ==
    /\ config \in configs
    /\ debugEnv \in DebugEnvChoices
    /\ tokens \in TokenChoices
    /\ pc = "boot"
    /\ slackClients = <<>>
    /\ now \in [day : 0..(NumDays - 1), min : ClockTimes]
    /\ fired = {}
    /\ tasks = <<>>
    /\ slack = [w \in 1..Len(Workspaces) |->
                  [profile |-> [status_text |-> "", status_emoji |-> "",
                                status_expiration |-> 0],
                   presence |-> "auto"]]
    /\ lastEval = NoEval
    /\ lastDone = NoTask
    /\ failures = 0
    /\ lateTicks = 0

Init == Boot(Configs)

InitCustom == Boot(CustomConfigs)

InitEmoji == Boot(EmojiConfigs)

InitLate == Boot(LateConfigs)

Next ==
    \/ LoadClients
    \/ StartupCheck
    \/ WorkStartTrigger
    \/ WorkEndTrigger
    \/ LunchStartTrigger
    \/ LunchEndTrigger
    \/ \E b \in Breaks : ShortBreakTrigger(b)
    \/ \E b \in Breaks : ShortBreakReturnTrigger(b)
    \/ NonWorkDayMidnightTrigger
    \/ DailyMidnightTrigger
    \/ \E i \in 1..Len(tasks) : ProfileSetResolves(i)
    \/ \E i \in 1..Len(tasks) : ProfileSetRejects(i)
    \/ \E i \in 1..Len(tasks) : SetPresenceResolves(i)
    \/ \E i \in 1..Len(tasks) : SetPresenceRejects(i)
    \/ Tick

Spec == Init /\ [][Next]_vars

\* an awaited remote call is settled
Settles ==
    \E i \in 1..Len(tasks) :
       \/ ProfileSetResolves(i) \/ ProfileSetRejects(i)
       \/ SetPresenceResolves(i) \/ SetPresenceRejects(i)

\* the program when every remote call is settled in the end
FairSpec == Spec /\ WF_vars(Settles)

\* the same program started under the custom configurations
SpecCustom == InitCustom /\ [][Next]_vars

\* the same program started under the configurations of EmojiConfigs
SpecEmoji == InitEmoji /\ [][Next]_vars

\* the same program started under the configuration of LateConfigs
SpecLate == InitLate /\ [][Next]_vars

----------------------------------------------------------------------------
(* Properties *)

Evaluated == lastEval.op # "none"

\* the pushes of the last evaluation without their emoji
Pushed ==
    [i \in 1..Len(lastEval.pushes) |->
        [kind |-> lastEval.pushes[i].kind, text |-> lastEval.pushes[i].text,
         expMin |-> lastEval.pushes[i].expMin,
         away |-> lastEval.pushes[i].away]]

\* the first matching branch of the precedence order at the instant t
FirstMatchingBranch(t) ==
    CASE IsOutOfOffice(t) -> "outOfOffice"
      [] ~IsOutOfOffice(t) /\ IsHoliday(t) -> "holiday"
      [] ~IsOutOfOffice(t) /\ ~IsHoliday(t) /\ IsVacation(t) -> "vacation"
      [] ~IsOutOfOffice(t) /\ ~IsHoliday(t) /\ ~IsVacation(t)
         /\ IsWeekend(t.day) -> "weekend"
      [] OTHER ->
            IF IsDuringWorkHours(t) /\ IsDuringLunch(t) THEN "lunch"
            ELSE IF IsDuringWorkHours(t) THEN "active"
            ELSE "away"

\* C1: the startup check makes exactly one push, the one of the first
\* matching branch in the order out-of-office, holiday, vacation, weekend,
\* lunch, active, away, with presence auto for lunch and active and away for
\* every other branch (weekend being the calendar weekend the code tests)
C1_FirstMatchWins ==
    lastEval.op = "initialStatusCheck" =>
        /\ Len(lastEval.pushes) = 1
        /\ lastEval.pushes[1].kind = FirstMatchingBranch(lastEval.at)
        /\ lastEval.pushes[1].away =
              (lastEval.pushes[1].kind \notin {"lunch", "active"})

C1_Witness ==
    /\ lastEval.op = "initialStatusCheck"
    /\ IsHoliday(lastEval.at) /\ IsVacation(lastEval.at)
    /\ IsDuringWorkHours(lastEval.at)
    /\ lastEval.pushes[1].kind = "holiday"

\* C2: no evaluation made on a holiday within work hours pushes Active
C2_HolidayNeverActive ==
    (Evaluated /\ IsHoliday(lastEval.at) /\ IsDuringWorkHours(lastEval.at)) =>
        \A i \in 1..Len(lastEval.pushes) : lastEval.pushes[i].kind # "active"

C2_Witness ==
    /\ lastEval.op = "workStart"
    /\ IsHoliday(lastEval.at) /\ ~IsVacation(lastEval.at)
    /\ ~IsOutOfOffice(lastEval.at)
    /\ IsDuringWorkHours(lastEval.at)
    /\ Len(lastEval.pushes) = 1

Completed == lastDone.phase = "done"

\* the positions of slackClients
Accounts == 1..Len(slackClients)

\* C3: a call of updateSlackStatus attempts every account exactly once,
\* whichever remote calls of earlier accounts failed
C3_EveryAccountOnce ==
    /\ Completed => \A k \in Accounts : lastDone.attempts[k] = 1
    /\ \A i \in 1..Len(tasks) : \A k \in Accounts :
          tasks[i].attempts[k] = IF k <= tasks[i].idx THEN 1 ELSE 0

C3_Witness ==
    /\ Completed
    /\ Len(slackClients) = 2
    /\ 1 \in lastDone.failed
    /\ lastDone.attempts[2] = 1

\* C4: a call of updateSlackStatus resolves, whichever remote calls failed,
\* and the process keeps running
C4_DispatchResolves ==
    Completed => lastDone.outcome = "resolved" /\ pc = "running"

C4_Witness ==
    /\ Completed
    /\ lastDone.failed = {1, 2}
    /\ lastDone.outcome = "resolved"

\* C5: one error is recorded for each account whose remote call failed and
\* none for an account whose calls succeeded
C5_OneErrorPerFailure ==
    /\ Completed =>
          \A k \in Accounts :
             lastDone.errors[k] = IF k \in lastDone.failed THEN 1 ELSE 0
    /\ \A i \in 1..Len(tasks) : \A k \in Accounts :
          tasks[i].errors[k] = IF k \in tasks[i].failed THEN 1 ELSE 0

C5_Witness ==
    /\ Completed
    /\ lastDone.failed = {2}
    /\ lastDone.errors[1] = 0 /\ lastDone.errors[2] = 1

\* DEBUG is set to "true" in some letter case
DebugFlagOn == debugEnv \in {"true", "TRUE"}

\* C6: with the debug flag on a call of updateSlackStatus makes no remote
\* call and logs one entry marked not sent per account; with the flag off
\* users.profile.set is called for every account and users.setPresence for
\* every account whose profile call did not fail
C6_DebugSuppressesCalls ==
    /\ DebugFlagOn => tasks = <<>>
    /\ Completed =>
          \A k \in Accounts :
             IF DebugFlagOn
             THEN /\ lastDone.profileCalls[k] = 0
                  /\ lastDone.presenceCalls[k] = 0
                  /\ lastDone.logs[k] = << "DEBUG - NOT SENT" >>
             ELSE /\ lastDone.profileCalls[k] = 1
                  /\ lastDone.presenceCalls[k] <= 1
                  /\ lastDone.presenceCalls[k] = 1 \/ k \in lastDone.failed
                  /\ k \notin lastDone.failed => lastDone.logs[k] = << "sent" >>

C6_Witness ==
    /\ Completed
    /\ DebugFlagOn
    /\ Len(slackClients) = 2
    /\ lastDone.logs[2] = << "DEBUG - NOT SENT" >>

\* the callbacks registered on the work days
WorkDayOps == {"workStart", "workEnd", "lunchStart", "lunchEnd", "shortBreak",
               "shortBreakReturn"}

\* the date is a holiday or a vacation day, or an out-of-office rule matches
Excepted(t) == IsHoliday(t) \/ IsVacation(t) \/ IsOutOfOffice(t)

Push(kind, expMin, away) == [kind |-> kind, expMin |-> expMin, away |-> away]

\* what each scheduled trigger pushes when it fires at the instant t
TriggerPushes(op, brk, t) ==
    CASE op = "workStart" ->
            IF Excepted(t) THEN << Push("away", 0, TRUE) >>
            ELSE << Push("active", 0, FALSE) >>
      [] op = "workEnd" ->
            IF Excepted(t) THEN << >> ELSE << Push("away", 0, TRUE) >>
      [] op = "lunchStart" ->
            IF Excepted(t) \/ IsWeekend(t.day) THEN << >>
            ELSE << Push("lunch", 60, FALSE) >>
      [] op \in {"lunchEnd", "shortBreakReturn"} ->
            IF Excepted(t) \/ IsWeekend(t.day) THEN << >>
            ELSE << Push("active", 0, FALSE) >>
      [] op = "shortBreak" ->
            IF Excepted(t) \/ IsWeekend(t.day) THEN << >>
            ELSE << Push("shortBreak", config.shortBreaks[brk].duration,
                         FALSE) >>
      [] op = "nonWorkDayMidnight" -> << Push("weekend", 0, TRUE) >>
      [] op = "dailyMidnight" ->
            IF IsWeekend(t.day) THEN << Push("weekend", 0, TRUE) >>
            ELSE IF IsHoliday(t) THEN << Push("holiday", 0, TRUE) >>
            ELSE IF IsVacation(t) THEN << Push("vacation", 0, TRUE) >>
            ELSE IF IsOutOfOffice(t) THEN << Push("outOfOffice", 0, TRUE) >>
            ELSE << >>

Fires(tr) == pc = "running" /\ tr \notin fired /\ tr \in fired'

\* C8 (as amended): on a holiday the work-end, lunch-start, lunch-end and
\* short-break triggers make no push and leave the status of every workspace
\* as it is, and the work-start trigger pushes Away with presence away
C8_HolidaySuppression ==
    [][\A tr \in Triggers :
          (tr.op \in WorkDayOps /\ Fires(tr) /\ IsHoliday(now)) =>
             IF tr.op = "workStart"
             THEN /\ Len(lastEval'.pushes) = 1
                  /\ lastEval'.pushes[1].kind = "away"
                  /\ lastEval'.pushes[1].away
             ELSE /\ lastEval'.pushes = << >>
                  /\ tasks' = tasks
                  /\ slack' = slack]_vars

C8_Witness ==
    /\ lastEval.op = "workEnd"
    /\ IsHoliday(lastEval.at)
    /\ ~IsVacation(lastEval.at) /\ ~IsOutOfOffice(lastEval.at)
    /\ lastEval.pushes = << >>

\* C8 (as claimed): a work-day trigger that fires on a holiday makes no push
C8_WorkDayTriggerSilentOnHoliday ==
    (lastEval.op \in WorkDayOps /\ IsHoliday(lastEval.at)) =>
        lastEval.pushes = << >>

\* C9: a Holiday push carries the message of the holiday entry of the date,
\* the configured Holiday message only when the entry has none, and presence
\* away
C9_HolidayOwnMessage ==
    \A i \in 1..Len(lastEval.pushes) :
       lastEval.pushes[i].kind = "holiday" =>
          LET holiday == config.holidays[GetHoliday(lastEval.at)]
          IN /\ lastEval.pushes[i].text =
                   IF holiday.message # "" THEN holiday.message
                   ELSE GetStatusMessage("holiday", "On Holiday")
             /\ lastEval.pushes[i].away

\* the first out-of-office rule that matches the instant t
MatchingRule(t) ==
    config.outOfOffice[
        Find({ i \in 1..Len(config.outOfOffice) :
                  OOORuleMatches(config.outOfOffice[i], FormatEEEE(t.day),
                                 t.min) })]

\* C10: an Out-of-office push carries the message of the rule that matched,
\* be it a day, a time or an hour-range rule, the configured Away message
\* only when that rule has none, presence away and no expiration
C10_MatchingRuleMessage ==
    \A i \in 1..Len(lastEval.pushes) :
       lastEval.pushes[i].kind = "outOfOffice" =>
          /\ lastEval.pushes[i].text =
                IF MatchingRule(lastEval.at).message # ""
                THEN MatchingRule(lastEval.at).message
                ELSE GetStatusMessage("away", "Away")
          /\ lastEval.pushes[i].away
          /\ lastEval.pushes[i].expMin = 0

----------------------------------------------------------------------------
(* Claims about the work week, the windows and the schedule *)

\* the weekday of day d is one of config.workDays
IsWorkDay(d) ==
    \E i \in 1..Len(config.workDays) : config.workDays[i] = FormatEEEE(d)

\* C11: at an instant that matches no out-of-office, holiday or vacation
\* rule the startup check resolves to Weekend, presence away, exactly when
\* the weekday of the instant is not one of config.workDays, whatever the
\* configured work week is
C11_WeekendIsNotAWorkDay ==
    (lastEval.op = "initialStatusCheck" /\ ~Excepted(lastEval.at)) =>
        /\ Len(lastEval.pushes) = 1
        /\ (lastEval.pushes[1].kind = "weekend") = ~IsWorkDay(lastEval.at.day)
        /\ lastEval.pushes[1].kind = "weekend" => lastEval.pushes[1].away

\* C12: the decision of the startup check carries an expiration exactly when
\* its kind is Lunch; the expiration sent is then the evaluated instant plus
\* 3600 seconds and the presence is auto; every other branch sends
\* status_expiration 0
C12_OnlyLunchExpires ==
    lastEval.op = "initialStatusCheck" =>
        LET dec == lastEval.pushes[1]
            task == IF tasks # <<>> THEN tasks[1] ELSE lastDone
        IN /\ (dec.expMin # 0) = (dec.kind = "lunch")
           /\ dec.kind = "lunch" => dec.expMin = 60 /\ ~dec.away
           /\ task.dec = dec
           /\ task.profile.status_expiration =
                 IF dec.kind = "lunch" THEN EpochSeconds(lastEval.at) + 3600
                 ELSE 0

C12_Witness ==
    /\ lastEval.op = "initialStatusCheck"
    /\ lastEval.pushes[1].kind = "lunch"
    /\ tasks # <<>>
    /\ tasks[1].profile.status_expiration = EpochSeconds(lastEval.at) + 3600

\* the status every loaded workspace shows, once every call made so far went
\* through: nothing is due or in flight, no call failed, debug mode is off
StatusSettled ==
    /\ pc = "running"
    /\ tasks = <<>>
    /\ DueTriggers(now) \subseteq fired
    /\ failures = 0
    /\ ~DebugMode

Shows(text, presence) ==
    \A k \in 1..Len(slackClients) :
       /\ slack[slackClients[k]].profile.status_text = text
       /\ slack[slackClients[k]].presence = presence

\* the minute m of the day lies in a short break
InShortBreak(m) ==
    \E b \in Breaks :
       /\ m >= Minutes(config.shortBreaks[b].time)
       /\ m < Minutes(config.shortBreaks[b].time)
                 + config.shortBreaks[b].duration

\* a work day without holiday or vacation, under a configuration without
\* out-of-office rules
OrdinaryWorkDay(d) ==
    /\ IsWorkDay(d) /\ ~IsWeekend(d)
    /\ ~IsHoliday([day |-> d, min |-> 0])
    /\ ~IsVacation([day |-> d, min |-> 0])
    /\ config.outOfOffice = <<>>

\* C13: on an ordinary work day, from workHours.start on and once the
\* triggers due so far have fired, the status shown is Active, presence auto,
\* at every minute of [workHours.start, workHours.end) outside the lunch
\* break and the short breaks, and Away, presence away, at every minute
\* from workHours.end on
C13_ActiveInsideWorkHours ==
    (StatusSettled /\ OrdinaryWorkDay(now.day)
       /\ now.min >= Minutes(config.workHours.start)) =>
       LET inside == now.min < Minutes(config.workHours.end)
           lunch == /\ now.min >= Minutes(config.lunchBreak.start)
                    /\ now.min < Minutes(config.lunchBreak.end)
       IN /\ (inside /\ ~lunch /\ ~InShortBreak(now.min)) =>
                Shows(GetStatusMessage("active", "Active"), "auto")
          /\ ~inside => Shows(GetStatusMessage("away", "Away"), "away")

\* C14: on a work day the short-break trigger is due at the break's
\* configured start and its end trigger at start plus duration; fired on a
\* day without holiday, vacation, weekend or out-of-office match the first
\* pushes Short Break, presence auto, expiring after the break's duration in
\* minutes, and the second pushes Active; fired on any other day they push
\* nothing, they never fire on a day that is not a work day, and no other
\* trigger pushes Short Break
C14_ShortBreakPushes ==
    /\ \A b \in Breaks :
          LET breakInfo == config.shortBreaks[b]
              quiet == Excepted(lastEval.at) \/ IsWeekend(lastEval.at.day)
          IN /\ (lastEval.op = "shortBreak" /\ lastEval.brk = b) =>
                   /\ lastEval.at.min = Minutes(breakInfo.time)
                   /\ IsWorkDay(lastEval.at.day)
                   /\ Pushed =
                        IF quiet THEN <<>>
                        ELSE << [kind |-> "shortBreak",
                                 text |-> GetStatusMessage("shortBreak",
                                                           "Short Break"),
                                 expMin |-> breakInfo.duration,
                                 away |-> FALSE] >>
             /\ (lastEval.op = "shortBreakReturn" /\ lastEval.brk = b) =>
                   /\ lastEval.at.min =
                         Minutes(breakInfo.time) + breakInfo.duration
                   /\ IsWorkDay(lastEval.at.day)
                   /\ Pushed =
                        IF quiet THEN <<>>
                        ELSE << [kind |-> "active",
                                 text |-> GetStatusMessage("active", "Active"),
                                 expMin |-> 0,
                                 away |-> FALSE] >>
             /\ \A d \in 0..(NumDays - 1) :
                   IsWorkDay(d) =>
                      /\ Due(Trigger("shortBreak", b),
                             [day |-> d, min |-> Minutes(breakInfo.time)])
                      /\ Due(Trigger("shortBreakReturn", b),
                             [day |-> d,
                              min |-> Minutes(breakInfo.time)
                                         + breakInfo.duration])
    /\ \A i \in 1..Len(lastEval.pushes) :
          lastEval.pushes[i].kind = "shortBreak" => lastEval.op = "shortBreak"

C14_Witness ==
    /\ lastEval.op = "shortBreak"
    /\ Len(lastEval.pushes) = 1
    /\ lastEval.pushes[1].kind = "shortBreak"
    /\ lastEval.pushes[1].expMin = config.shortBreaks[lastEval.brk].duration
    /\ ~lastEval.pushes[1].away

\* C15: the work-start, work-end, lunch-start and lunch-end triggers fire at
\* the configured workHours.start, workHours.end, lunchBreak.start and
\* lunchBreak.end, each short break has a start trigger at its time, the two
\* midnight triggers fire at 00:00, and there is one start and one end
\* trigger per short break beside the six others
C15_TriggersAtConfiguredTimes ==
    /\ lastEval.op = "workStart" =>
          lastEval.at.min = Minutes(config.workHours.start)
    /\ lastEval.op = "workEnd" =>
          lastEval.at.min = Minutes(config.workHours.end)
    /\ lastEval.op = "lunchStart" =>
          lastEval.at.min = Minutes(config.lunchBreak.start)
    /\ lastEval.op = "lunchEnd" =>
          lastEval.at.min = Minutes(config.lunchBreak.end)
    /\ lastEval.op = "shortBreak" =>
          lastEval.at.min = Minutes(config.shortBreaks[lastEval.brk].time)
    /\ lastEval.op \in {"nonWorkDayMidnight", "dailyMidnight"} =>
          lastEval.at.min = 0
    /\ Cardinality(Triggers) = 6 + 2 * Len(config.shortBreaks)

\* the numbers cron gives the configured work days, Sunday being 0
WorkDayNumbers ==
    { n \in 0..6 : \E i \in 1..Len(config.workDays) :
                      config.workDays[i] = DayNames[n + 1] }

\* the set of the day numbers of a cron day list
Mask(days) == { days[i] : i \in 1..Len(days) }

\* C16: the day mask of the work-day triggers is the set of configured work
\* days and the mask of the non-work-day midnight trigger is its complement
\* in the week; the non-work-day trigger is due at midnight of exactly the
\* days that are not work days, and the work-day triggers only fire on work
\* days
C16_DayMasksPartitionWeek ==
    /\ Mask(GetWorkDaysCronExpression) = WorkDayNumbers
    /\ Mask(GetNonWorkDaysCronExpression) = (0..6) \ WorkDayNumbers
    /\ Mask(GetWorkDaysCronExpression)
          \cap Mask(GetNonWorkDaysCronExpression) = {}
    /\ Mask(GetWorkDaysCronExpression)
          \cup Mask(GetNonWorkDaysCronExpression) = 0..6
    /\ \A d \in 0..(NumDays - 1) :
          Due(Trigger("nonWorkDayMidnight", 0), [day |-> d, min |-> 0])
             = ~IsWorkDay(d)
    /\ lastEval.op = "nonWorkDayMidnight" => ~IsWorkDay(lastEval.at.day)
    /\ lastEval.op \in WorkDayOps => IsWorkDay(lastEval.at.day)

C16_Witness ==
    /\ lastEval.op = "nonWorkDayMidnight"
    /\ ~IsWeekend(lastEval.at.day)
    /\ ~IsWorkDay(lastEval.at.day)

\* C17: the end trigger of a short break whose start plus duration stays
\* within the day is set to hour (start + duration) div 60 and minute
\* (start + duration) mod 60, so on a work day it is due, and fires, at
\* minute start + duration of the day
C17_BreakEndIsStartPlusDuration ==
    \A b \in Breaks :
       LET breakInfo == config.shortBreaks[b]
           total == breakInfo.time.h * 60 + breakInfo.time.m
                       + breakInfo.duration
       IN total < 1440 =>
             /\ ReturnFromBreak(breakInfo).h = total \div 60
             /\ ReturnFromBreak(breakInfo).m = total % 60
             /\ \A d \in 0..(NumDays - 1) :
                   IsWorkDay(d) =>
                      Due(Trigger("shortBreakReturn", b),
                          [day |-> d, min |-> total])
             /\ (lastEval.op = "shortBreakReturn" /\ lastEval.brk = b) =>
                   lastEval.at.min = total

C17_Witness ==
    /\ lastEval.op = "shortBreakReturn"
    /\ config.shortBreaks[lastEval.brk].time.m
          + config.shortBreaks[lastEval.brk].duration >= 60
    /\ lastEval.at.min \div 60 > config.shortBreaks[lastEval.brk].time.h
    /\ lastEval.pushes # <<>>

\* the day of December 2025 of a date, counted from the first modelled day
DecemberDay(date) == date[7] * 10 + date[8] - 24

\* the day d lies in one of the vacation periods, both ends included
InVacationPeriod(d) ==
    \E i \in 1..Len(config.vacationPeriods) :
       /\ DecemberDay(config.vacationPeriods[i].start) <= d
       /\ d <= DecemberDay(config.vacationPeriods[i].end)

\* C18: a date is a vacation date exactly when it lies between the start
\* and the end of a vacation period, both included: the start, the end and
\* the dates between them are, the day before the start and the day after
\* the end are not; the startup check on a date without holiday and
\* out-of-office match resolves to Vacation on exactly those dates
C18_VacationInclusive ==
    /\ \A d \in 0..(NumDays - 1) :
          IsVacation([day |-> d, min |-> 0]) = InVacationPeriod(d)
    /\ (lastEval.op = "initialStatusCheck"
          /\ ~IsOutOfOffice(lastEval.at) /\ ~IsHoliday(lastEval.at)) =>
          (lastEval.pushes[1].kind = "vacation")
             = InVacationPeriod(lastEval.at.day)

C18_Witness ==
    /\ lastEval.op = "initialStatusCheck"
    /\ lastEval.pushes[1].kind = "vacation"
    /\ \E i \in 1..Len(config.vacationPeriods) :
          /\ config.vacationPeriods[i].end = FormatDate(lastEval.at.day)
          /\ config.vacationPeriods[i].start # config.vacationPeriods[i].end

\* the minutes from a up to but without b
HalfOpen(a, b) == a..(b - 1)

\* the ends of the two windows and the minutes next to them
WindowEdges ==
    { Minutes(hm) + k :
         hm \in {config.workHours.start, config.workHours.end,
                 config.lunchBreak.start, config.lunchBreak.end},
         k \in {-1, 0, 1} }

\* C19: isDuringWorkHours holds exactly at the minutes of
\* [workHours.start, workHours.end) and isDuringLunch exactly at those of
\* [lunchBreak.start, lunchBreak.end), the start minute inside and the end
\* minute outside; the startup check of a work day without other match
\* resolves to Lunch, Active or Away accordingly
C19_HalfOpenWindows ==
    LET work == HalfOpen(config.workHours.start.h * 60
                            + config.workHours.start.m,
                         config.workHours.end.h * 60 + config.workHours.end.m)
        lunch == HalfOpen(config.lunchBreak.start.h * 60
                             + config.lunchBreak.start.m,
                          config.lunchBreak.end.h * 60
                             + config.lunchBreak.end.m)
    IN /\ \A m \in WindowEdges \cup {now.min} :
             /\ IsDuringWorkHours([day |-> now.day, min |-> m]) = (m \in work)
             /\ IsDuringLunch([day |-> now.day, min |-> m]) = (m \in lunch)
       /\ (lastEval.op = "initialStatusCheck" /\ ~Excepted(lastEval.at)
             /\ ~IsWeekend(lastEval.at.day)) =>
             lastEval.pushes[1].kind =
                IF lastEval.at.min \in work \cap lunch THEN "lunch"
                ELSE IF lastEval.at.min \in work THEN "active"
                ELSE "away"

C19_Witness ==
    /\ lastEval.op = "initialStatusCheck"
    /\ lastEval.at.min = Minutes(config.lunchBreak.end)
    /\ ~IsDuringLunch(lastEval.at)
    /\ IsDuringLunch([lastEval.at EXCEPT !.min = Minutes(config.lunchBreak.start)])
    /\ lastEval.pushes[1].kind = "active"

\* a rule applies to the weekday day and the minute m of the day
RuleApplies(rule, day, m) ==
    \/ rule.day # "" /\ rule.day = day
    \/ /\ rule.time # NoTime
       /\ m \in HalfOpen(rule.time.h * 60 + rule.time.m,
                         rule.time.h * 60 + rule.time.m + rule.duration)
    \/ /\ rule.hour.start # NoTime /\ rule.hour.end # NoTime
       /\ m \in HalfOpen(rule.hour.start.h * 60 + rule.hour.start.m,
                         rule.hour.end.h * 60 + rule.hour.end.m)

\* the time and day options isOutOfOffice is asked with, absent ones included
OptTimeChoices == {NoTime, HM(9, 0), HM(9, 59), HM(10, 0), HM(16, 59), HM(17, 0)}

OptDayChoices == {"", "Friday", "Monday"}

\* C20: isOutOfOffice is true exactly when one of the configured rules
\* applies: a day rule to the weekday of the instant, a time rule to the
\* minute of the day in [time, time + duration), an hour rule to the minute
\* in [start, end); a day or time given explicitly replaces the one of the
\* instant, and with no rule, or none applying, it is false; the startup
\* check resolves to Out-of-office exactly then
C20_OutOfOfficeIffRuleApplies ==
    /\ \A optTime \in OptTimeChoices, optDay \in OptDayChoices :
          LET day == IF optDay = "" THEN DayNames[GetDay(now.day) + 1]
                     ELSE optDay
              m == IF optTime = NoTime THEN now.min
                   ELSE optTime.h * 60 + optTime.m
          IN IsOutOfOfficeAt(now, optTime, optDay) =
                (\E i \in 1..Len(config.outOfOffice) :
                    RuleApplies(config.outOfOffice[i], day, m))
    /\ lastEval.op = "initialStatusCheck" =>
          (lastEval.pushes[1].kind = "outOfOffice") =
             (\E i \in 1..Len(config.outOfOffice) :
                 RuleApplies(config.outOfOffice[i],
                             DayNames[GetDay(lastEval.at.day) + 1],
                             lastEval.at.min))

C20_Witness ==
    /\ lastEval.op = "initialStatusCheck"
    /\ lastEval.pushes[1].kind = "outOfOffice"
    /\ config.outOfOffice[1].time # NoTime
    /\ ~IsOutOfOfficeAt(lastEval.at, HM(10, 0), "")
    /\ IsOutOfOfficeAt(lastEval.at, HM(9, 59), "Monday")

----------------------------------------------------------------------------
(* Claims about the remote calls, the startup and the configuration *)

\* the calls of updateSlackStatus that are in flight or just completed
Calls ==
    { tasks[i] : i \in 1..Len(tasks) }
       \cup (IF lastDone.phase = "done" THEN {lastDone} ELSE {})

\* C21: the status_expiration of the profile handed to users.profile.set is
\* 0 exactly when the decision has no expiration; otherwise it is the epoch
\* second of the call plus expirationMinutes * 60, which lies after the
\* instant of the call
C21_ExpirationSent ==
    /\ \A task \in Calls :
          (task.profile.status_expiration = 0) = (task.dec.expMin = 0)
    /\ lastEval.pushes # <<>> =>
          \A task \in Calls :
             task.dec = lastEval.pushes[1] =>
                /\ task.profile.status_expiration =
                      IF task.dec.expMin = 0 THEN 0
                      ELSE EpochSeconds(lastEval.at) + task.dec.expMin * 60
                /\ task.dec.expMin # 0 =>
                      task.profile.status_expiration > EpochSeconds(now)

C21_Witness ==
    /\ lastEval.op = "shortBreak"
    /\ lastEval.pushes # <<>>
    /\ ~DebugMode
    /\ \E k \in 1..Len(slackClients) :
          slack[slackClients[k]].profile.status_expiration =
             EpochSeconds(lastEval.at)
                + config.shortBreaks[lastEval.brk].duration * 60

\* the step settles the remote call task i is waiting for, successfully
Advanced(i) ==
    /\ failures' = failures
    /\ \/ tasks' = RemoveAt(tasks, i)
       \/ Len(tasks') = Len(tasks) /\ tasks'[i] # tasks[i]

\* C22: outside debug mode the only changes of an account's remote state
\* are made by a call in flight to that account: users.profile.set carries
\* the decision's text and emoji, users.setPresence carries away when the
\* decision's away flag is set and auto otherwise; a completed call has made
\* each of them once for every account it did not fail on
C22_CallsCarryDecision ==
    /\ [](lastDone.phase = "done" /\ ~lastDone.debugMode =>
             \A k \in 1..Len(slackClients) :
                k \notin lastDone.failed =>
                   /\ lastDone.profileCalls[k] = 1
                   /\ lastDone.presenceCalls[k] = 1)
    /\ [][\A i \in 1..Len(tasks) :
             Advanced(i) =>
                LET w == slackClients[tasks[i].idx]
                IN /\ ~tasks[i].debugMode
                   /\ tasks[i].phase = "profile" =>
                         /\ slack'[w].profile.status_text = tasks[i].dec.text
                         /\ slack'[w].profile.status_emoji
                               = tasks[i].dec.emoji
                   /\ tasks[i].phase = "presence" =>
                         slack'[w].presence =
                            IF tasks[i].dec.away THEN "away" ELSE "auto"]_vars
    /\ [][\A w \in 1..Len(Workspaces) :
             slack'[w] # slack[w] =>
                \E i \in 1..Len(tasks) :
                   /\ slackClients[tasks[i].idx] = w
                   /\ ~tasks[i].debugMode
                   /\ \/ /\ tasks[i].phase = "profile"
                         /\ slack'[w].profile.status_text = tasks[i].dec.text
                         /\ slack'[w].profile.status_emoji = tasks[i].dec.emoji
                         /\ slack'[w].presence = slack[w].presence
                      \/ /\ tasks[i].phase = "presence"
                         /\ slack'[w].presence =
                               IF tasks[i].dec.away THEN "away" ELSE "auto"
                         /\ slack'[w].profile = slack[w].profile]_vars

C22_Witness ==
    /\ lastDone.phase = "done"
    /\ ~lastDone.debugMode
    /\ lastDone.failed = {}
    /\ lastDone.dec.away
    /\ tasks = <<>>
    /\ \A k \in 1..Len(slackClients) :
          /\ slack[slackClients[k]].presence = "away"
          /\ slack[slackClients[k]].profile.status_text = lastDone.dec.text
          /\ slack[slackClients[k]].profile.status_emoji = lastDone.dec.emoji

\* the configured workspaces that have a token
WithToken == { i \in 1..Len(config.workspaces) : i \in tokens }

\* C23: after the load the account list holds the configured workspaces
\* that have a token, in the order of the configuration, and a warning was
\* given for each of the others; the process goes on when the list is not
\* empty and has exited with a non-zero status when it is, and before the
\* load and after the exit no status was pushed and no trigger ran
C23_AccountsAreWorkspacesWithToken ==
    /\ pc # "boot" =>
          /\ { slackClients[k] : k \in 1..Len(slackClients) } = WithToken
          /\ \A a, b \in 1..Len(slackClients) :
                a < b => slackClients[a] < slackClients[b]
          /\ { MissingTokenWarnings[k] : k \in 1..Len(MissingTokenWarnings) }
                = (1..Len(config.workspaces)) \ WithToken
          /\ (pc = "exited") = (WithToken = {})
    /\ pc = "exited" => ExitCode # 0
    /\ pc \in {"boot", "exited"} =>
          /\ lastEval.op = "none" /\ tasks = <<>> /\ lastDone.phase = "none"
          /\ fired = {}
          /\ \A w \in 1..Len(Workspaces) : slack[w].profile.status_text = ""

C23_Witness ==
    /\ pc = "running"
    /\ tokens = {2}
    /\ slackClients = <<2>>
    /\ MissingTokenWarnings = <<1>>
    /\ lastEval.op = "initialStatusCheck"

\* the text the code falls back to for a kind of status
HardCodedDefault(kind) ==
    CASE kind = "active" -> "Active"
      [] kind = "away" -> "Away"
      [] kind = "lunch" -> "Lunch Break"
      [] kind = "shortBreak" -> "Short Break"
      [] kind = "holiday" -> "On Holiday"
      [] kind = "vacation" -> "On Vacation"
      [] kind = "weekend" -> "Weekend Mode"

\* C24 (as amended): without configured status messages the startup check
\* still pushes exactly one decision, and its text is the hard-coded default
\* of the kind, but for a holiday that has a message of its own, whose text
\* is that message, and for an out-of-office decision, whose text is the
\* message of the day rule of that weekday or else Away
C24_DefaultsWhenMissing ==
    (lastEval.op = "initialStatusCheck"
       /\ DOMAIN config.statusMessages = {}) =>
       /\ Len(lastEval.pushes) = 1
       /\ LET dec == lastEval.pushes[1]
              holiday == config.holidays[GetHoliday(lastEval.at)]
              dayRules == { i \in 1..Len(config.outOfOffice) :
                               config.outOfOffice[i].day
                                  = FormatEEEE(lastEval.at.day) }
          IN dec.text =
                CASE dec.kind = "holiday" /\ holiday.message # "" ->
                        holiday.message
                  [] dec.kind = "outOfOffice" /\ dayRules # {} ->
                        IF config.outOfOffice[Find(dayRules)].message # ""
                        THEN config.outOfOffice[Find(dayRules)].message
                        ELSE "Away"
                  [] dec.kind = "outOfOffice" /\ dayRules = {} -> "Away"
                  [] OTHER -> HardCodedDefault(dec.kind)

C24_Witness ==
    /\ lastEval.op = "initialStatusCheck"
    /\ DOMAIN config.statusMessages = {}
    /\ Len(lastEval.pushes) = 1
    /\ lastEval.pushes[1].kind = "holiday"
    /\ lastEval.pushes[1].text = "On Holiday"

\* C24 as stated: without configured status messages the text of the one
\* decision of the startup check is the hard-coded default of its kind
C24_HardCodedDefaults ==
    (lastEval.op = "initialStatusCheck"
       /\ DOMAIN config.statusMessages = {}) =>
       /\ Len(lastEval.pushes) = 1
       /\ lastEval.pushes[1].kind # "outOfOffice" =>
             lastEval.pushes[1].text
                = HardCodedDefault(lastEval.pushes[1].kind)

\* the emoji category of a kind of status
CategoryOf(kind) ==
    IF kind \in {"active", "lunch", "shortBreak"} THEN kind ELSE "away"

\* C25: a configuration with an empty emoji list for a category is rejected
\* at load, the process never runs with it, and no decision is ever pushed
\* with an undefined emoji
C25_MalformedConfigRejected ==
    /\ pc = "running" =>
          \A category \in DOMAIN config.emojis :
             config.emojis[category] # <<>>
    /\ \A i \in 1..Len(lastEval.pushes) :
          lastEval.pushes[i].emoji # Undefined

\* C26: the emoji of a push is one of the configured list of its category,
\* and it is the emoji of the status of the same category pushed earlier
\* that day, which the accounts still show when no call failed and debug
\* mode is off
C26_SameEmojiAllDay ==
    \A i \in 1..Len(lastEval.pushes) :
       LET dec == lastEval.pushes[i]
           list == config.emojis[CategoryOf(dec.kind)]
       IN /\ list # <<>> =>
                \E j \in 1..Len(list) : dec.emoji = list[j]
          /\ (pc = "running" /\ failures = 0 /\ ~DebugMode
                /\ lastEval.op # "initialStatusCheck") =>
                \A k \in 1..Len(slackClients) :
                   slack[slackClients[k]].profile.status_text = dec.text =>
                      slack[slackClients[k]].profile.status_emoji = dec.emoji

\* C27: no account has more than one call of updateSlackStatus waiting on a
\* remote call to it at the same time
C27_OneOutstandingPush ==
    \A k \in 1..Len(slackClients) :
       Cardinality({ i \in 1..Len(tasks) : tasks[i].idx = k }) <= 1

\* C28: while an out-of-office rule matches the instant, every account
\* shows presence away, once the calls made so far went through
C28_OutOfOfficeAway ==
    (StatusSettled /\ IsOutOfOffice(now)) =>
       \A k \in 1..Len(slackClients) :
          slack[slackClients[k]].presence = "away"

\* the texts of the statuses of a day that is not an ordinary work day
ExceptionTexts ==
    { GetStatusMessage("holiday", "On Holiday"),
      GetStatusMessage("vacation", "On Vacation"),
      GetStatusMessage("weekend", "Weekend Mode") }
       \cup { config.holidays[i].message : i \in 1..Len(config.holidays) }
       \cup { config.outOfOffice[i].message :
                 i \in { j \in 1..Len(config.outOfOffice) :
                            config.outOfOffice[j].day # "" } }

\* C29: on an ordinary work day, once the midnight triggers and the calls
\* made so far went through, no account shows the Holiday, Vacation,
\* out-of-office or Weekend text of a previous day
C29_StatusOfTheNewDay ==
    (StatusSettled /\ OrdinaryWorkDay(now.day)) =>
       \A k \in 1..Len(slackClients) :
          slack[slackClients[k]].profile.status_text \notin ExceptionTexts

\* C30: a call of updateSlackStatus handles the accounts one at a time in
\* the order of the list: while it waits on a remote call to account k,
\* every account before k has been attempted once and is finished (logged
\* or failed) and no call has been made to an account after k; when it
\* returns every account has been attempted; and when every remote call is
\* settled in the end, every call of updateSlackStatus returns
C30_SequentialAndTerminates ==
    /\ [](\A i \in 1..Len(tasks) :
             LET task == tasks[i] IN
             /\ task.idx \in 1..Len(slackClients)
             /\ task.attempts[task.idx] = 1
             /\ task.profileCalls[task.idx] = 1
             /\ \A j \in 1..Len(slackClients) :
                   /\ j < task.idx =>
                         /\ task.attempts[j] = 1
                         /\ task.logs[j] # <<>> \/ j \in task.failed
                   /\ j > task.idx =>
                         /\ task.attempts[j] = 0
                         /\ task.profileCalls[j] = 0
                         /\ task.presenceCalls[j] = 0)
    /\ [](lastDone.phase = "done" =>
             \A j \in 1..Len(slackClients) :
                /\ lastDone.attempts[j] = 1
                /\ lastDone.logs[j] # <<>> \/ j \in lastDone.failed)
    /\ (tasks # <<>>) ~> (tasks = <<>>)

C30_Witness ==
    /\ Len(slackClients) = 2
    /\ tasks # <<>>
    /\ tasks[1].idx = 2
    /\ tasks[1].phase = "presence"
    /\ tasks[1].logs[1] # <<>>

----------------------------------------------------------------------------
(* Claims about the order of the remote calls and the midnight callbacks *)

\* the step settles the remote call task i is waiting for with a rejection
Rejected(i) ==
    /\ failures' = failures + 1
    /\ \/ tasks' = RemoveAt(tasks, i)
       \/ Len(tasks') = Len(tasks) /\ tasks'[i] # tasks[i]

\* task i after a step that settled its remote call
After(i) == IF Len(tasks') = Len(tasks) THEN tasks'[i] ELSE lastDone'

\* C31: a call of updateSlackStatus asks users.setPresence for an account
\* only in the step in which users.profile.set for that account resolved;
\* when users.profile.set rejects, the remote state of the account is left
\* as it was and users.setPresence is not called for it in that call
C31_PresenceAfterProfile ==
    /\ [](\A task \in Calls : \A k \in 1..Len(slackClients) :
             /\ task.presenceCalls[k] <= task.profileCalls[k]
             /\ (task.phase = "profile" /\ task.idx = k) =>
                   task.presenceCalls[k] = 0)
    /\ [][\A i \in 1..Len(tasks) :
             LET k == tasks[i].idx
                 w == slackClients[k]
             IN /\ (tasks[i].phase = "profile" /\ Rejected(i)) =>
                      /\ slack' = slack
                      /\ After(i).presenceCalls[k] = 0
                      /\ k \in After(i).failed
                /\ (Len(tasks') = Len(tasks)
                      /\ tasks'[i].presenceCalls # tasks[i].presenceCalls) =>
                      /\ Advanced(i)
                      /\ tasks[i].phase = "profile"
                      /\ tasks'[i].presenceCalls[k] = 1
                      /\ slack'[w].profile = tasks[i].profile]_vars

C31_Witness ==
    /\ lastDone.phase = "done"
    /\ Len(slackClients) = 2
    /\ lastDone.dec.away
    /\ lastDone.failed = {1}
    /\ lastDone.profileCalls[1] = 1
    /\ lastDone.presenceCalls[1] = 0
    /\ slack[slackClients[1]].presence = "auto"
    /\ slack[slackClients[2]].presence = "away"

\* both midnight callbacks of a day that is not a work day have run and
\* every call they made went through
MidnightCallbacksDone ==
    /\ pc = "running"
    /\ now.min = 0
    /\ ~IsWorkDay(now.day)
    /\ Trigger("nonWorkDayMidnight", 0) \in fired
    /\ Trigger("dailyMidnight", 0) \in fired
    /\ tasks = <<>>
    /\ failures = 0
    /\ ~DebugMode

\* C32: at 00:00 of a day that is not a work day both midnight callbacks
\* are due, and once both have completed every account shows the same
\* status, whatever the order in which their remote calls were settled
C32_MidnightOrderIrrelevant ==
    /\ (now.min = 0 /\ ~IsWorkDay(now.day)) =>
          /\ Due(Trigger("nonWorkDayMidnight", 0), now)
          /\ Due(Trigger("dailyMidnight", 0), now)
    /\ MidnightCallbacksDone =>
          \A a, b \in 1..Len(slackClients) :
             slack[slackClients[a]] = slack[slackClients[b]]

\* C33: whenever the daily midnight callback pushes a status, it is the
\* text and the presence the startup check pushes for the same instant
C33_MidnightFollowsStartupCheck ==
    (lastEval.op = "dailyMidnight" /\ lastEval.pushes # <<>>) =>
       /\ lastEval.pushes[1].text = InitialStatusCheck(lastEval.at)[1].text
       /\ lastEval.pushes[1].away = InitialStatusCheck(lastEval.at)[1].away

\* C34: within one call of updateSlackStatus every account that is attempted
\* receives the same profile object (text, emoji, expiration): no answer of a
\* remote call, success or failure, changes the object the call was started
\* with, however late the answer comes, and an answered users.profile.set
\* has stored exactly that object in the account
C34_SamePayloadForEveryAccount ==
    [][\A i \in 1..Len(tasks) :
          /\ (Advanced(i) \/ Rejected(i)) =>
                After(i).profile = tasks[i].profile
          /\ (Advanced(i) /\ tasks[i].phase = "profile") =>
                slack'[slackClients[tasks[i].idx]].profile = tasks[i].profile
      ]_vars

\* a call with an expiration has ended after the clock moved on, and both
\* accounts hold the payload computed before the loop
C34_Witness ==
    /\ lateTicks > 0
    /\ lastDone.phase = "done"
    /\ lastDone.dec.expMin > 0
    /\ lastDone.failed = {}
    /\ ~lastDone.debugMode
    /\ Len(slackClients) = 2
    /\ lastDone.profile.status_expiration #
          EpochSeconds(now) + lastDone.dec.expMin * 60
    /\ \A k \in 1..Len(slackClients) :
          slack[slackClients[k]].profile = lastDone.profile

====
